---- MODULE Spec2Model ----
(***************************************************************************)
(* The dual-direction batched scoring pipeline of src/utils.py             *)
(* (run_matching_pipeline, score_one_batch, run_dual_matching_pipeline)    *)
(* as a state machine.  One asyncio event loop runs two direction          *)
(* pipelines; every batch of a direction is a task that calls the          *)
(* external service, retries with a backoff sleep, and hands its result to *)
(* the pipeline in completion order.                                       *)
(***************************************************************************)
EXTENDS Integers, Sequences, FiniteSets, TLC

VARIABLES
    df_index,        \* df_filtered.index.tolist(): the roster's index list
    user_idx,        \* index of the requester's own profile, or NoneIdx
    chunk_size,      \* configured batch size
    pc,              \* per direction: position of run_matching_pipeline
    total_count,     \* per direction: len(indices) after the exclusion
    batches,         \* per direction: the list of batches
    tasks,           \* per direction: one record per score_one_batch task:
                     \* where it is, its attempt, the clock units left of
                     \* its sleep, the scores object it parsed
    results,         \* per direction: results in as_completed order
    progress_log,    \* per direction: arguments of each progress_callback call
    final_cb,        \* per direction: number of final_callback calls
    all_scores,      \* per direction: the merged dict, in insertion order
    top_items,       \* per direction: the filtered, sorted (idx, score) list
    final_attempt,   \* per direction: final-report attempts started
    status_messages, \* per direction: the status log
    error,           \* per direction: the exception the pipeline raised
    result,          \* per direction: the tuple the pipeline returned
    first_exc,       \* the first exception a child handed to asyncio.gather
    coord,           \* the coroutine given to asyncio.run: running / returned /
                     \* raised (the coordinator), single / ended (one pipeline)
    ret,             \* the value run_dual_matching_pipeline returned
    since_last,      \* whole clock units since the last service request
                     \* (-1: no request yet)
    last_gap,        \* whole clock units between the two most recent
                     \* requests (-1: fewer than two)
    late_return,     \* a batch task returned a result from its last attempt
    final_events,    \* per direction: final_callback calls and final-report
                     \* requests, in the order the code makes them
    recommendations_get,   \* st.session_state.recommendations_get
    recommendations_give,  \* st.session_state.recommendations_give
    overlap,         \* what the "On Both Lists" tab has rendered
    final_wait,      \* per direction: whole clock units left of the sleep
                     \* before the next final-report attempt
    progress_state,  \* main()'s progress_state: completed, generating_finals
    total_batches,   \* main()'s total_batches, the total the progress shows
    session          \* the rest of st.session_state, the configuration's
                     \* verdict, and the announced lockout still to run

\* the session state the result tabs read, what the third tab shows, and
\* the total main() computes before the run
uiVars == <<recommendations_get, recommendations_give, overlap, total_batches,
            session>>

vars == <<df_index, user_idx, chunk_size, pc, total_count, batches, tasks,
          results, progress_log, final_cb, all_scores, top_items,
          final_attempt, status_messages, error, result, first_exc, coord,
          ret, since_last, last_gap, late_return, final_events,
          recommendations_get, recommendations_give, overlap, final_wait,
          progress_state, total_batches, session>>

-----------------------------------------------------------------------------
(* Bounds of the model *)

\* roster indices are drawn from 0..MaxIdx-1 when partitioning is explored
MaxIdx == 5
\* batch sizes 1..MaxChunk when partitioning is explored
MaxChunk == 3
\* roster size when one direction's pipeline is explored
MaxRoster == 3
\* roster size when both directions run under the coordinator
DualRoster == 1
\* the clock stops counting the time since the last request here
MaxElapsed == 2
\* parts of a report when the overlap of two reports is explored
MaxEntries == 2
\* roster size when one direction's pipeline is followed to its end
LiveRoster == 2
\* failed password attempts a session is followed through
MaxFailed == 6
\* dual runs a session is followed through
MaxRuns == 2

(* Program constants *)

\* user_idx=None
NoneIdx == -1
\* for attempt in range(3)
MaxAttempts == 3
\* min_score=8
MinScore == 8
\* backoff_delays = [5, 10, 20], in seconds
BackoffDelays == <<5, 10, 20>>
\* seconds in one unit of the clock: the shortest backoff delay
ClockUnit == 5
\* if st.session_state.failed_attempts >= 5
LockoutAfter == 5

GET == "get_value"
GIVE == "give_value"
Dirs == {GET, GIVE}

-----------------------------------------------------------------------------
(* Helpers on sequences *)

Range(s) == {s[i] : i \in 1..Len(s)}

Min(a, b) == IF a <= b THEN a ELSE b

\* the strictly increasing sequence of the elements of a set of integers
RECURSIVE SortedSeq(_)
SortedSeq(S) ==
    IF S = {} THEN <<>>
    ELSE LET m == CHOOSE x \in S : \A y \in S : x <= y
         IN <<m>> \o SortedSeq(S \ {m})

RECURSIVE Flatten(_)
Flatten(ss) == IF ss = <<>> THEN <<>> ELSE Head(ss) \o Flatten(Tail(ss))

-----------------------------------------------------------------------------
(* Partitioning: run_matching_pipeline, lines 258-272 *)

\* if user_idx is not None and user_idx in indices: drop it
ExcludeOwn(ix, u) ==
    IF u # NoneIdx /\ u \in Range(ix)
    THEN SelectSeq(ix, LAMBDA i : i # u)
    ELSE ix

\* range(0, len(indices), chunk_size): the number of slice starts
NumSlices(n, c) == (n + c - 1) \div c

\* a slice that runs one element into the next one
SliceAtOverlap(ix, c, k) == SubSeq(ix, (k - 1) * c + 1, Min(k * c + 1, Len(ix)))

\* indices[i:i + chunk_size] for the k-th start i = (k-1)*chunk_size
SliceAt(ix, c, k) == SubSeq(ix, (k - 1) * c + 1, Min(k * c, Len(ix)))

\* the slices handed out last to first
CreateBatchesReversed(ix, c) ==
    [k \in 1..NumSlices(Len(ix), c) |->
        SliceAt(ix, c, NumSlices(Len(ix), c) + 1 - k)]

\* [indices[i:i + chunk_size] for i in range(0, len(indices), chunk_size)]
CreateBatches(ix, c) == [k \in 1..NumSlices(Len(ix), c) |-> SliceAt(ix, c, k)]

-----------------------------------------------------------------------------
(* Decoded service responses and Python dicts *)

\* A decoded JSON value: <<"int", n>> is the integer n, <<"str", 0>> stands
\* for every value that is no number (a string, null, a list, an object).
IntVal(n) == <<"int", n>>
StrVal == <<"str", 0>>
IsNumber(v) == v[1] = "int"

\* the values the service may give an ordinal: in range, out of range, no number
ScoreVals == {IntVal(8), IntVal(11), StrVal}

\* what one call of client.chat.completions.create can come back with:
\*   "error"       the call raises (transport error),
\*   "empty"       message.content is empty,
\*   "undecodable" json.loads raises,
\*   "not_object"  json.loads gives no object, so scores.get raises,
\*   "json"        a JSON object; scores maps the ordinals it has to values
\*                 (keys that are no ordinal of the batch are never read)
Failures == {"error", "empty", "undecodable", "not_object"}
ScoringResponses(n) ==
    [kind : Failures, scores : {<<>>}]
    \cup [kind : {"json"},
          scores : UNION {[S -> ScoreVals] : S \in SUBSET (1..n)}]

\* A dict is the sequence of its (key, value) pairs in insertion order.
DictKeys(d) == {d[i][1] : i \in 1..Len(d)}

\* d[k] = v: an existing key keeps its place, a new key goes last
DictSet(d, k, v) ==
    IF k \in DictKeys(d)
    THEN [i \in 1..Len(d) |-> IF d[i][1] = k THEN <<k, v>> ELSE d[i]]
    ELSE Append(d, <<k, v>>)

\* d.update(other)
RECURSIVE DictUpdate(_, _)
DictUpdate(d, other) ==
    IF other = <<>> THEN d
    ELSE DictUpdate(DictSet(d, Head(other)[1], Head(other)[2]), Tail(other))

-----------------------------------------------------------------------------
(* score_one_batch, lines 301-309: ordinals back to profile indices *)

\* an absent ordinal taken for a qualifying score
ScoreOfDefaultQualifies(scores, j) ==
    IF j \in DOMAIN scores THEN scores[j] ELSE IntVal(MinScore)

\* scores.get(str(j), scores.get(j, 0))
ScoreOf(scores, j) == IF j \in DOMAIN scores THEN scores[j] ELSE IntVal(0)

RECURSIVE MapBatch(_, _, _, _)
MapBatch(batch, scores, j, acc) ==
    IF j > Len(batch) THEN acc
    ELSE MapBatch(batch, scores, j + 1,
                  DictSet(acc, batch[j], ScoreOf(scores, j)))

BatchResult(batch, scores) == MapBatch(batch, scores, 1, <<>>)

-----------------------------------------------------------------------------
(* run_matching_pipeline, lines 331-351: merge, histogram, filter *)

\* all_scores = {}; for batch_scores, _ in results: all_scores.update(...)
RECURSIVE MergeFrom(_, _)
MergeFrom(acc, res) ==
    IF res = <<>> THEN acc
    ELSE MergeFrom(DictUpdate(acc, Head(res).scores), Tail(res))

\* a merge that assigns the batch's scores instead of adding them
MergeResultsLastOnly(res) ==
    IF res = <<>> THEN <<>> ELSE res[Len(res)].scores

MergeResults(res) == MergeFrom(<<>>, res)

CountScore(scores, n) ==
    Cardinality({i \in 1..Len(scores) : scores[i][2] = IntVal(n)})

\* for score_val in range(10, 0, -1): one line per value that occurs
RECURSIVE HistogramFrom(_, _)
HistogramFrom(scores, n) ==
    IF n < 1 THEN <<>>
    ELSE (IF CountScore(scores, n) > 0
          THEN << <<"Score n: c profiles", n, CountScore(scores, n)>> >>
          ELSE <<>>) \o HistogramFrom(scores, n - 1)

Histogram(scores) == HistogramFrom(scores, 10)

\* sorted(..., key=lambda x: x[1], reverse=True) is stable: an item goes
\* behind every item whose score is not smaller
RECURSIVE InsertDesc(_, _)
InsertDesc(sorted, item) ==
    IF sorted = <<>> THEN <<item>>
    ELSE IF Head(sorted)[2][2] >= item[2][2]
         THEN <<Head(sorted)>> \o InsertDesc(Tail(sorted), item)
         ELSE <<item>> \o sorted

RECURSIVE SortDesc(_, _)
SortDesc(items, acc) ==
    IF items = <<>> THEN acc
    ELSE SortDesc(Tail(items), InsertDesc(acc, Head(items)))

SortedItems(scores) == SortDesc(scores, <<>>)

\* comparing a value that is no number with an int raises TypeError, in
\* sorted() when the dict mixes both and in score >= min_score otherwise
FilterRaises(scores) == \E i \in 1..Len(scores) : ~IsNumber(scores[i][2])

\* a filter that drops the candidates scoring exactly min_score
FilterTopStrict(scores, min_score) ==
    SelectSeq(SortedItems(scores), LAMBDA it : it[2][2] > min_score)

\* [(idx, score) for idx, score in sorted(...) if score >= min_score]
FilterTop(scores, min_score) ==
    SelectSeq(SortedItems(scores), LAMBDA it : it[2][2] >= min_score)

-----------------------------------------------------------------------------
(* The state a run starts from *)

NoError == <<"none", 0, 0>>

\* st.session_state.recommendations_get = None, and nothing rendered
NoReport == <<>>
NoOverlap == [rendered |-> FALSE, entries |-> {}]

\* config["app_password"], and what can be typed into the password field
AppPassword == "right"
Passwords == {AppPassword, "wrong", "other"}

\* lines 120-140 and 151-152: the session state of a new session; ok tells
\* whether the four required settings are there (line 146)
NewSession(ok) ==
    [config_ok |-> ok, authenticated |-> FALSE, failed_attempts |-> 0,
     last_password_attempt |-> "", lockout_left |-> 0,
     df |-> FALSE, df_filtered |-> FALSE, last_searched_name |-> "",
     search_performed |-> FALSE, selected_match |-> "none",
     scoring_status_get |-> NoReport, scoring_status_give |-> NoReport,
     runs |-> 0]

\* the session state at the click on "Generate": unlocked, the roster
\* loaded and filtered, a profile selected
SessionAt(requester) ==
    [NewSession(TRUE) EXCEPT
        !.authenticated = TRUE, !.last_password_attempt = AppPassword,
        !.df = TRUE, !.df_filtered = TRUE,
        !.last_searched_name = "ann", !.search_performed = TRUE,
        !.selected_match = IF requester = NoneIdx THEN "custom" ELSE "csv"]

\* nothing stored and nothing rendered yet, in a session that has come to
\* its "Generate" click
NoSession ==
    /\ recommendations_get = NoReport
    /\ recommendations_give = NoReport
    /\ overlap = NoOverlap
    /\ session = SessionAt(user_idx)

NoResult == [text |-> "", scores |-> <<>>, status |-> <<>>]

DirectionLabel(d) == IF d = "get_value" THEN "GET value" ELSE "GIVE value"

\* everything but the inputs and the entry point
Fresh ==
    /\ total_count = [d \in Dirs |-> 0]
    /\ batches = [d \in Dirs |-> <<>>]
    /\ tasks = [d \in Dirs |-> <<>>]
    /\ results = [d \in Dirs |-> <<>>]
    /\ progress_log = [d \in Dirs |-> <<>>]
    /\ final_cb = [d \in Dirs |-> 0]
    /\ all_scores = [d \in Dirs |-> <<>>]
    /\ top_items = [d \in Dirs |-> <<>>]
    /\ final_attempt = [d \in Dirs |-> 0]
    /\ status_messages = [d \in Dirs |-> <<>>]
    /\ error = [d \in Dirs |-> NoError]
    /\ result = [d \in Dirs |-> NoResult]
    /\ first_exc = NoError
    /\ ret = <<>>
    /\ since_last = -1
    /\ last_gap = -1
    /\ late_return = FALSE
    /\ final_events = [d \in Dirs |-> <<>>]
    /\ final_wait = [d \in Dirs |-> 0]
    /\ progress_state = [completed |-> 0, generating_finals |-> FALSE]

\* math.ceil(n / c), for a positive c
CeilDiv(n, c) == -((-n) \div c)

\* main(), lines 352-354: the batches of both directions as the progress
\* display counts them; size is the 60 written there, which is also the
\* chunk_size the call passes
TotalBatches(n, requester, size) ==
    LET num_profiles == n - (IF requester # NoneIdx THEN 1 ELSE 0)
        batches_per_direction == CeilDiv(num_profiles, size)
    IN  batches_per_direction * 2

\* asyncio.run(run_dual_matching_pipeline(...)) on a roster 0..n-1; the
\* requester is not in the roster file (None), in the filtered roster, or in
\* the roster file but filtered out (the index n); the batch size is above
\* 1, as the 60 of the application is
Init ==
    /\ \E n \in 0..DualRoster : df_index = SortedSeq(0..(n - 1))
    /\ user_idx \in {NoneIdx} \cup 0..DualRoster
    /\ chunk_size \in 2..(DualRoster + 1)
    /\ pc = [d \in Dirs |-> "init"]
    /\ coord = "running"
    /\ Fresh
    /\ NoSession
    /\ total_batches = TotalBatches(Len(df_index), user_idx, chunk_size)

\* asyncio.run(run_matching_pipeline(...)): one direction on its own
InitPipeline ==
    /\ \E n \in 0..MaxRoster : df_index = SortedSeq(0..(n - 1))
    /\ user_idx \in {NoneIdx} \cup 0..(MaxRoster - 1)
    /\ chunk_size \in 1..MaxRoster
    /\ \E d \in Dirs : pc = [e \in Dirs |-> IF e = d THEN "init" ELSE "off"]
    /\ coord = "single"
    /\ Fresh
    /\ NoSession
    /\ total_batches = 0

\* one direction on its own, on the rosters its termination is followed on
InitLive ==
    /\ \E n \in 0..LiveRoster : df_index = SortedSeq(0..(n - 1))
    /\ user_idx \in {NoneIdx} \cup 0..(LiveRoster - 1)
    /\ chunk_size \in 1..LiveRoster
    /\ \E d \in Dirs : pc = [e \in Dirs |-> IF e = d THEN "init" ELSE "off"]
    /\ coord = "single"
    /\ Fresh
    /\ NoSession
    /\ total_batches = 0

\* run_matching_pipeline alone, on any index list, any requester, any size
InitPartition ==
    /\ df_index \in {SortedSeq(S) : S \in SUBSET (0..(MaxIdx - 1))}
    /\ user_idx \in {NoneIdx} \cup 0..(MaxIdx - 1)
    /\ chunk_size \in 1..MaxChunk
    /\ \E d \in Dirs : pc = [e \in Dirs |-> IF e = d THEN "init" ELSE "off"]
    /\ coord = "single"
    /\ Fresh
    /\ NoSession
    /\ total_batches = 0

\* a loop that runs the GIVE pipeline only once the GET pipeline is over
AliveInTurn(d) ==
    /\ coord \in {"running", "single"} /\ pc[d] # "off"
    /\ (d = "give_value" /\ coord = "running") =>
          pc["get_value"] \in {"done", "failed"}

\* The coroutine asyncio.run was given (the coordinator, or one pipeline on
\* its own) has not finished: once it has, the loop cancels every task left.
Alive(d) == coord \in {"running", "single"} /\ pc[d] # "off"

-----------------------------------------------------------------------------
(* Service requests and the clock *)

\* n requests leave in one turn of the event loop, with no await between
\* them
Issue(n) ==
    /\ since_last' = IF n > 0 THEN 0 ELSE since_last
    /\ last_gap' = IF n > 1 THEN 0
                   ELSE IF n = 1 /\ since_last >= 0 THEN since_last
                   ELSE last_gap

\* the exception a child of asyncio.gather raised first is the one it raises
Raise(exc) ==
    first_exc' = IF coord = "running" /\ first_exc = NoError /\ exc # NoError
                 THEN exc ELSE first_exc

-----------------------------------------------------------------------------
(* The callbacks main() hands to the dual run: src/app.py, lines 362-388.  *)
(* A pipeline run on its own is given callbacks that only take the call.   *)

AppCallbacks == coord = "running"

\* on_batch_complete: nothing once a final stage has begun, else one more
on_batch_complete(ps) ==
    IF ~AppCallbacks \/ ps.generating_finals THEN ps
    ELSE [ps EXCEPT !.completed = @ + 1]

\* pct = min(done / total_batches * 0.9, 0.9) divides by zero
CallbackRaises(ps) ==
    AppCallbacks /\ ~ps.generating_finals /\ total_batches = 0

DivisionByZero == <<"division by zero", 0, 0>>

\* on_final_start, for the cb final_callback calls the pipeline makes
on_final_start(ps, cb) ==
    IF AppCallbacks /\ cb > 0 THEN [ps EXCEPT !.generating_finals = TRUE]
    ELSE ps

\* a schedule that never grows
BackoffFlat(attempt) == BackoffDelays[1]

\* backoff_delays[attempt], for the attempt that has just failed
Backoff(attempt) == BackoffDelays[attempt]

\* asyncio.sleep(seconds), in whole clock units
SleepUnits(seconds) == seconds \div ClockUnit

-----------------------------------------------------------------------------
(* run_matching_pipeline, lines 326-380: from the last batch result to the *)
(* first final-report request, none of which awaits                       *)

\* a pipeline that asks for a report on an empty list of candidates
AfterScoringNoCheck(n, res, sm) ==
    LET merged == MergeResults(res)
        sm1 == Append(sm, <<"All n batches scored", n, 0>>) \o Histogram(merged)
        top == FilterTop(merged, MinScore)
        sm2 == Append(sm1, <<"k profiles scored m+", Len(top), MinScore>>)
    IN  IF FilterRaises(merged)
        THEN [pc |-> "failed", all_scores |-> merged, top_items |-> <<>>,
              status |-> sm1, error |-> <<"TypeError", 0, 0>>,
              cb |-> 0, calls |-> 0, events |-> <<>>]
        ELSE [pc |-> "final_call", all_scores |-> merged, top_items |-> top,
              status |-> Append(sm2,
                                <<"Generating final top 25", Len(top), 0>>),
              error |-> NoError, cb |-> 1, calls |-> 1,
              events |-> <<"final_callback", "request">>]

AfterScoring(n, res, sm) ==
    LET merged == MergeResults(res)
        sm1 == Append(sm, <<"All n batches scored", n, 0>>) \o Histogram(merged)
        top == FilterTop(merged, MinScore)
        sm2 == Append(sm1, <<"k profiles scored m+", Len(top), MinScore>>)
    IN  IF FilterRaises(merged)
        THEN [pc |-> "failed", all_scores |-> merged, top_items |-> <<>>,
              status |-> sm1, error |-> <<"TypeError", 0, 0>>,
              cb |-> 0, calls |-> 0, events |-> <<>>]
        ELSE IF top = <<>>
        THEN [pc |-> "failed", all_scores |-> merged, top_items |-> top,
              status |-> sm2,
              error |-> <<"No profiles scored m+", MinScore, 0>>,
              cb |-> 0, calls |-> 0, events |-> <<>>]
        ELSE [pc |-> "final_call", all_scores |-> merged, top_items |-> top,
              status |-> Append(sm2,
                                <<"Generating final top 25", Len(top), 0>>),
              error |-> NoError, cb |-> 1, calls |-> 1,
              events |-> <<"final_callback", "request">>]

\* the direction moves on as AfterScoring says
Proceed(d, a) ==
    /\ pc' = [pc EXCEPT ![d] = a.pc]
    /\ all_scores' = [all_scores EXCEPT ![d] = a.all_scores]
    /\ top_items' = [top_items EXCEPT ![d] = a.top_items]
    /\ status_messages' = [status_messages EXCEPT ![d] = a.status]
    /\ error' = [error EXCEPT ![d] = a.error]
    /\ final_cb' = [final_cb EXCEPT ![d] = @ + a.cb]
    /\ final_attempt' = [final_attempt EXCEPT ![d] = @ + a.calls]
    /\ final_events' = [final_events EXCEPT ![d] = @ \o a.events]
    /\ Raise(a.error)

-----------------------------------------------------------------------------
(* run_matching_pipeline, lines 254-325: up to the first await *)

StartMessages(d, ix, bs) ==
    << <<DirectionLabel(d), 0, 0>> >>
    \o (IF user_idx # NoneIdx /\ user_idx \in Range(df_index)
        THEN << <<"Excluded own profile", user_idx, 0>> >> ELSE <<>>)
    \o << <<"Scoring n profiles in m batches", Len(ix), Len(bs)>> >>

\* every batch task runs to its first request in the same turn of the loop
Start(d) ==
    /\ pc[d] = "init"
    /\ Alive(d)
    /\ d = GIVE => pc[GET] \notin {"init"}
    /\ LET ix == ExcludeOwn(df_index, user_idx)
           bs == CreateBatches(ix, chunk_size)
           sm == StartMessages(d, ix, bs)
       IN /\ total_count' = [total_count EXCEPT ![d] = Len(ix)]
          /\ batches' = [batches EXCEPT ![d] = bs]
          /\ tasks' = [tasks EXCEPT ![d] =
                          [b \in 1..Len(bs) |->
                              [st |-> "call", attempt |-> 1, wait |-> 0,
                               scores |-> <<>>]]]
          /\ IF Len(bs) = 0
             THEN LET a == AfterScoring(0, <<>>, sm)
                  IN /\ Proceed(d, a)
                     /\ progress_state' = on_final_start(progress_state, a.cb)
                     /\ Issue(0)
             ELSE /\ pc' = [pc EXCEPT ![d] = "scoring"]
                  /\ status_messages' = [status_messages EXCEPT ![d] = sm]
                  /\ Issue(Len(bs))
                  /\ UNCHANGED <<all_scores, top_items, error, final_cb,
                                 final_attempt, final_events, first_exc,
                                 progress_state>>
    /\ UNCHANGED <<df_index, user_idx, chunk_size, results, progress_log,
                   result, coord, ret, late_return, final_wait>>
    /\ UNCHANGED uiVars

-----------------------------------------------------------------------------
(* score_one_batch, lines 287-315, and the as_completed loop, lines 321-329 *)

\* the attempt ends inside the try block with a result
Succeeds(r) == r.kind = "json"

\* a callback handed the batch number instead of the completed count
ProgressArgsBatchNum(res, n, b) == <<b, n>>

\* progress_callback(len(results), num_batches, direction); the log is kept
\* per direction, and a callback is taken to be given, as the caller does
ProgressArgs(res, n, b) == <<Len(res), n>>

\* an except clause that logs the failure and falls through to the merge
ScoringFailedPartial(d, b, exc) ==
    LET a == AfterScoring(Len(batches[d]), results[d],
                          Append(status_messages[d], <<"Scoring failed", b, exc[3]>>))
    IN  Proceed(d, a) /\ Issue(a.calls)

\* lines 327-329: await coro raises, the pipeline logs it and re-raises
ScoringFailed(d, b, exc) ==
    /\ pc' = [pc EXCEPT ![d] = "failed"]
    /\ status_messages' = [status_messages EXCEPT ![d] =
          Append(@, <<"Scoring failed", b, exc[3]>>)]
    /\ error' = [error EXCEPT ![d] = exc]
    /\ Raise(exc)
    /\ Issue(0)
    /\ UNCHANGED <<all_scores, top_items, final_cb, final_attempt, final_events>>

\* a loop that stops at the first result
LoopOverAtFirst(res, n) == Len(res) >= 1

\* for coro in asyncio.as_completed(tasks): over once every task has been
\* awaited
LoopOver(res, n) == Len(res) = n

\* return result, batch_num; the pipeline takes it in completion order, calls
\* progress_callback and, after the last one, goes on without awaiting
BatchDone(d, b, r) ==
    LET res == Append(results[d],
                      [scores |-> BatchResult(batches[d][b], r.scores),
                       batch_num |-> b])
        n == Len(batches[d])
        counted == on_batch_complete(progress_state)
    IN  /\ tasks' = [tasks EXCEPT ![d][b] =
                        [st |-> "done", attempt |-> 0, wait |-> 0,
                         scores |-> r.scores]]
        /\ IF pc[d] = "scoring"
           THEN /\ results' = [results EXCEPT ![d] = res]
                /\ progress_log' = [progress_log EXCEPT ![d] =
                                       Append(@, ProgressArgs(res, n, b))]
                /\ late_return' = (late_return
                                   \/ tasks[d][b].attempt = MaxAttempts)
                /\ IF CallbackRaises(progress_state)
                   THEN \* the callback's exception is caught by line 327
                        /\ progress_state' = counted
                        /\ ScoringFailed(d, 0, DivisionByZero)
                   ELSE IF LoopOver(res, n)
                   THEN LET a == AfterScoring(n, res, status_messages[d])
                        IN /\ Proceed(d, a)
                           /\ progress_state' = on_final_start(counted, a.cb)
                           /\ Issue(a.calls)
                   ELSE /\ Issue(0)
                        /\ progress_state' = counted
                        /\ UNCHANGED <<pc, all_scores, top_items,
                                       status_messages, error, final_cb,
                                       final_attempt, final_events, first_exc>>
           ELSE /\ Issue(0)
                /\ UNCHANGED <<results, progress_log, pc, all_scores,
                               top_items, status_messages, error, final_cb,
                               final_attempt, final_events, first_exc,
                               late_return, progress_state>>

\* a retry loop that gives up one attempt early
RetryAllowedOffByOne(attempt) == attempt < MaxAttempts - 1

\* if attempt < 2, for the 0-based attempt: another attempt follows
RetryAllowed(attempt) == attempt < MaxAttempts

\* except Exception: sleep before the next attempt, or raise after the third
BatchFailed(d, b) ==
    LET t == tasks[d][b]
        exc == <<"Batch b failed after n attempts", b, t.attempt>>
    IN  /\ UNCHANGED <<results, progress_log, late_return, progress_state>>
        /\ IF RetryAllowed(t.attempt)
           THEN /\ tasks' = [tasks EXCEPT ![d][b] =
                               [t EXCEPT !.st = "sleep",
                                   !.wait = SleepUnits(Backoff(t.attempt))]]
                /\ Issue(0)
                /\ UNCHANGED <<pc, status_messages, error, first_exc,
                               all_scores, top_items, final_cb, final_attempt, final_events>>
           ELSE /\ tasks' = [tasks EXCEPT ![d][b].st = "failed"]
                /\ IF pc[d] = "scoring"
                   THEN ScoringFailed(d, b, exc)
                   ELSE /\ Issue(0)
                        /\ UNCHANGED <<pc, status_messages, error, first_exc,
                                       all_scores, top_items, final_cb,
                                       final_attempt, final_events>>

\* the service answers the request of batch b
Respond(d, b) ==
    /\ Alive(d)
    /\ b \in 1..Len(tasks[d])
    /\ tasks[d][b].st = "call"
    /\ \E r \in ScoringResponses(Len(batches[d][b])) :
          IF Succeeds(r) THEN BatchDone(d, b, r) ELSE BatchFailed(d, b)
    /\ UNCHANGED <<df_index, user_idx, chunk_size, total_count, batches,
                   result, coord, ret, final_wait>>
    /\ UNCHANGED uiVars

\* asyncio.sleep(backoff_delays[attempt]) is over: the next attempt's request
Retry(d, b) ==
    /\ tasks' = [tasks EXCEPT ![d][b] =
                    [@ EXCEPT !.st = "call", !.attempt = @ + 1, !.wait = 0]]
    /\ Issue(1)
    /\ UNCHANGED <<df_index, user_idx, chunk_size, pc, total_count, batches,
                   results, progress_log, final_cb, all_scores, top_items,
                   final_attempt, final_events, status_messages, error, result, first_exc,
                   coord, ret, late_return, final_wait, progress_state>>
    /\ UNCHANGED uiVars

Wake(d, b) ==
    /\ Alive(d)
    /\ b \in 1..Len(tasks[d])
    /\ tasks[d][b].st = "sleep"
    /\ Retry(d, b)

-----------------------------------------------------------------------------
(* run_matching_pipeline, lines 373-398: the final-report call *)

FinalResponses == {"text", "empty", "error"}

\* a return that hands back only the candidates sent to the final round
FinalResultTopOnly(d, sm) ==
    [text |-> "report", scores |-> top_items[d], status |-> sm]

\* return text, all_scores, status_messages
FinalResult(d, sm) ==
    [text |-> "report", scores |-> all_scores[d], status |-> sm]

\* a final-report loop that allows itself a fourth attempt
FinalRetryAllowedOneMore(attempt) == attempt < MaxAttempts + 1

\* if attempt < 2, line 393: another final-report attempt follows
FinalRetryAllowed(attempt) == attempt < MaxAttempts

FinalRespond(d) ==
    /\ Alive(d)
    /\ pc[d] = "final_call"
    /\ \E r \in FinalResponses :
          IF r = "text"
          THEN LET sm == Append(status_messages[d],
                                <<"Final recommendations generated", 0, 0>>)
               IN /\ pc' = [pc EXCEPT ![d] = "done"]
                  /\ status_messages' = [status_messages EXCEPT ![d] = sm]
                  /\ result' = [result EXCEPT ![d] = FinalResult(d, sm)]
                  /\ UNCHANGED <<error, first_exc, final_wait>>
          ELSE IF FinalRetryAllowed(final_attempt[d])
          THEN /\ pc' = [pc EXCEPT ![d] = "final_sleep"]
               /\ final_wait' = [final_wait EXCEPT ![d] =
                     SleepUnits(Backoff(final_attempt[d]))]
               /\ status_messages' = [status_messages EXCEPT ![d] =
                     Append(@, <<"Final call failed, retrying", final_attempt[d], 0>>)]
               /\ UNCHANGED <<result, error, first_exc>>
          ELSE LET exc == <<"Final call failed", final_attempt[d], 0>>
               IN /\ pc' = [pc EXCEPT ![d] = "failed"]
                  /\ status_messages' = [status_messages EXCEPT ![d] =
                        Append(@, <<"Final recommendation failed", final_attempt[d], 0>>)]
                  /\ error' = [error EXCEPT ![d] = exc]
                  /\ Raise(exc)
                  /\ UNCHANGED <<result, final_wait>>
    /\ Issue(0)
    /\ UNCHANGED <<df_index, user_idx, chunk_size, total_count, batches, tasks,
                   results, progress_log, final_cb, all_scores, top_items,
                   final_attempt, final_events, coord, ret, late_return,
                   progress_state>>
    /\ UNCHANGED uiVars

\* a retry that announces the final stage again
FinalRetryCallsBack(d) ==
    /\ pc' = [pc EXCEPT ![d] = "final_call"]
    /\ final_attempt' = [final_attempt EXCEPT ![d] = @ + 1]
    /\ final_cb' = [final_cb EXCEPT ![d] = @ + 1]
    /\ final_events' = [final_events EXCEPT ![d] =
                            @ \o <<"final_callback", "request">>]
    /\ final_wait' = [final_wait EXCEPT ![d] = 0]
    /\ Issue(1)
    /\ UNCHANGED <<df_index, user_idx, chunk_size, total_count, batches, tasks,
                   results, progress_log, all_scores, top_items,
                   status_messages, error, result, first_exc, coord, ret,
                   late_return, progress_state>>
    /\ UNCHANGED uiVars

\* the sleep of line 395 is over: the next final-report request
FinalRetry(d) ==
    /\ pc' = [pc EXCEPT ![d] = "final_call"]
    /\ final_attempt' = [final_attempt EXCEPT ![d] = @ + 1]
    /\ final_events' = [final_events EXCEPT ![d] = Append(@, "request")]
    /\ final_wait' = [final_wait EXCEPT ![d] = 0]
    /\ Issue(1)
    /\ UNCHANGED <<df_index, user_idx, chunk_size, total_count, batches, tasks,
                   results, progress_log, final_cb, all_scores, top_items,
                   status_messages, error, result, first_exc, coord, ret,
                   late_return, progress_state>>
    /\ UNCHANGED uiVars

FinalWake(d) ==
    /\ Alive(d)
    /\ pc[d] = "final_sleep"
    /\ FinalRetry(d)

-----------------------------------------------------------------------------
(* run_dual_matching_pipeline, line 440: asyncio.gather(get_task, give_task) *)

\* results handed back in the other order
GatherResultSwapped == <<result[GIVE], result[GET]>>

\* the results in the order of gather's arguments
GatherResult == <<result[GET], result[GIVE]>>

GatherReturn ==
    /\ coord = "running"
    /\ \A d \in Dirs : pc[d] = "done"
    /\ coord' = "returned"
    /\ ret' = GatherResult
    /\ UNCHANGED <<df_index, user_idx, chunk_size, pc, total_count, batches,
                   tasks, results, progress_log, final_cb, all_scores,
                   top_items, final_attempt, final_events, status_messages, error, result,
                   first_exc, since_last, last_gap, late_return, final_wait,
                   progress_state>>
    /\ UNCHANGED uiVars

GatherRaise ==
    /\ coord = "running"
    /\ first_exc # NoError
    /\ coord' = "raised"
    /\ UNCHANGED <<df_index, user_idx, chunk_size, pc, total_count, batches,
                   tasks, results, progress_log, final_cb, all_scores,
                   top_items, final_attempt, final_events, status_messages, error, result,
                   first_exc, ret, since_last, last_gap, late_return,
                   final_wait, progress_state>>
    /\ UNCHANGED uiVars

\* asyncio.run(run_matching_pipeline(...)) is over, whichever way it ended
RunEnds ==
    /\ coord = "single"
    /\ \E d \in Dirs : pc[d] \in {"done", "failed"}
    /\ coord' = "ended"
    /\ UNCHANGED <<df_index, user_idx, chunk_size, pc, total_count, batches,
                   tasks, results, progress_log, final_cb, all_scores,
                   top_items, final_attempt, final_events, status_messages, error, result,
                   first_exc, ret, since_last, last_gap, late_return,
                   final_wait, progress_state>>
    /\ UNCHANGED uiVars

-----------------------------------------------------------------------------
(* The clock.  Its unit is ClockUnit seconds, the shortest backoff delay,   *)
(* which is also taken as the shortest time the spec allows between two    *)
(* service requests (60/maxPerMinute seconds, at 12 requests a minute).    *)
(* A response may arrive within a unit; a sleeper is woken only when the   *)
(* units of its asyncio.sleep have all passed.                             *)

\* one more unit of a task's sleep has passed
Slept(t) ==
    IF t.st # "sleep" THEN t
    ELSE IF t.wait > 1 THEN [t EXCEPT !.wait = @ - 1]
    ELSE [t EXCEPT !.st = "due", !.wait = 0]

\* one unit passes
Tick ==
    /\ since_last' = IF since_last >= 0 /\ since_last < MaxElapsed
                     THEN since_last + 1 ELSE since_last
    /\ tasks' = [d \in Dirs |-> [b \in 1..Len(tasks[d]) |->
                    Slept(tasks[d][b])]]
    /\ final_wait' = [d \in Dirs |->
                         IF pc[d] = "final_sleep" /\ final_wait[d] > 0
                         THEN final_wait[d] - 1 ELSE final_wait[d]]
    /\ pc' = [d \in Dirs |-> IF pc[d] = "final_sleep" /\ final_wait[d] <= 1
                             THEN "final_due" ELSE pc[d]]
    /\ UNCHANGED <<df_index, user_idx, chunk_size, total_count, batches,
                   results, progress_log, final_cb, all_scores, top_items,
                   final_attempt, final_events, status_messages, error, result, first_exc,
                   coord, ret, last_gap, late_return, progress_state>>
    /\ UNCHANGED uiVars

WakeDue(d, b) ==
    /\ Alive(d)
    /\ b \in 1..Len(tasks[d])
    /\ tasks[d][b].st = "due"
    /\ Retry(d, b)

FinalWakeDue(d) ==
    /\ Alive(d)
    /\ pc[d] = "final_due"
    /\ FinalRetry(d)

-----------------------------------------------------------------------------
(* The "On Both Lists" tab: src/app.py, lines 497-565.  A text is the     *)
(* sequence of its characters; a report is the sequence of the heading    *)
(* lines of its "### #k. ..." parts, the k-th part of direction d having  *)
(* the body <<d, k>>.                                                     *)

Max(a, b) == IF a >= b THEN a ELSE b

\* str.lower() on the letters the names are written with
Lower(c) ==
    CASE c = "J" -> "j"
      [] c = "O" -> "o"
      [] c = "N" -> "n"
      [] OTHER -> c

\* a lower() that leaves the text as it is
LowerStrIdentity(t) == t

\* name.lower()
LowerStr(t) == [i \in 1..Len(t) |-> Lower(t[i])]

\* the em dash and the en dash
EmDash == "em-dash"
EnDash == "en-dash"
Dashes == {EmDash, EnDash}

\* str.strip()
RECURSIVE Strip(_)
Strip(t) ==
    IF t # <<>> /\ t[Len(t)] = " " THEN Strip(SubSeq(t, 1, Len(t) - 1))
    ELSE IF t # <<>> /\ t[1] = " " THEN Strip(Tail(t))
    ELSE t

\* re.split(r'\s*[dashes]\s*', full_heading)[0].strip(): the text before
\* the first dash
NamePart(heading) ==
    LET full_heading == Strip(heading)
        dashAt == {i \in 1..Len(full_heading) : full_heading[i] \in Dashes}
        stop == IF dashAt = {} THEN Len(full_heading) + 1
                ELSE CHOOSE i \in dashAt : \A j \in dashAt : i <= j
    IN  Strip(SubSeq(full_heading, 1, stop - 1))

\* re.match(r'\[([^\]]+)\]', name_part): the text between a leading "[" and
\* the first "]", when there is some; the name part itself otherwise
LinkName(part) ==
    LET closeAt == {i \in 3..Len(part) : part[i] = "]"}
        close == CHOOSE i \in closeAt : \A j \in closeAt : i <= j
    IN  IF part # <<>> /\ part[1] = "[" /\ part[2] # "]" /\ closeAt # {}
        THEN SubSeq(part, 2, close - 1)
        ELSE part

ExtractName(heading) == LinkName(NamePart(heading))

\* extract_entries: entries[name.lower()] = {name, heading, body}, a later
\* part with the same key replacing the earlier one
RECURSIVE ExtractFrom(_, _, _, _)
ExtractFrom(report, d, k, entries) ==
    IF k > Len(report) THEN entries
    ELSE LET name == ExtractName(report[k])
         IN ExtractFrom(report, d, k + 1,
                DictSet(entries, LowerStr(name),
                        [name |-> name, heading |-> report[k],
                         body |-> <<d, k>>]))

extract_entries(report, d) == ExtractFrom(report, d, 1, <<>>)

\* entries[key], for a key the dict has
EntryOf(entries, key) ==
    LET i == CHOOSE i \in 1..Len(entries) : entries[i][1] = key
    IN  entries[i][2]

\* the length of a longest common subsequence
RECURSIVE LCS(_, _)
LCS(a, b) ==
    IF a = <<>> \/ b = <<>> THEN 0
    ELSE IF Head(a) = Head(b) THEN 1 + LCS(Tail(a), Tail(b))
    ELSE Max(LCS(Tail(a), b), LCS(a, Tail(b)))

\* a ratio taken against the longer text alone
RatioAtLeastByLongest(a, b, pct) ==
    100 * LCS(a, b) >= pct * Max(Len(a), Len(b))

\* fuzz.ratio(a, b) >= pct, the ratio being 100 * 2 * LCS / (len(a) + len(b))
RatioAtLeast(a, b, pct) == 200 * LCS(a, b) >= pct * (Len(a) + Len(b))

\* if fuzz.ratio(get_key, give_key) >= 85
FuzzyThreshold == 85

\* the inner loop of lines 540-547: the index of the first give_key that is
\* not in overlap_names and is similar enough, 0 when the loop runs out
RECURSIVE FirstGive(_, _, _, _)
FirstGive(get_key, give_entries, names, j) ==
    IF j > Len(give_entries) THEN 0
    ELSE IF give_entries[j][1] \notin names
            /\ RatioAtLeast(get_key, give_entries[j][1], FuzzyThreshold)
         THEN j
         ELSE FirstGive(get_key, give_entries, names, j + 1)

\* the outer loop of lines 537-547; m.names is overlap_names and m.give_key
\* holds the '_give_key' each matched get entry was given
RECURSIVE FuzzyFrom(_, _, _, _)
FuzzyFrom(get_entries, give_entries, i, m) ==
    IF i > Len(get_entries) THEN m
    ELSE LET get_key == get_entries[i][1]
             j == FirstGive(get_key, give_entries, m.names, 1)
         IN IF get_key \in m.names \/ j = 0
            THEN FuzzyFrom(get_entries, give_entries, i + 1, m)
            ELSE FuzzyFrom(get_entries, give_entries, i + 1,
                    [names |-> m.names \cup {get_key},
                     give_key |-> DictSet(m.give_key, get_key,
                                          give_entries[j][1])])

\* lines 533-547: exact matches on the lower-cased names, then the fuzzy pass
OverlapNames(get_entries, give_entries) ==
    LET exact == DictKeys(get_entries) \cap DictKeys(give_entries)
        m == [names |-> exact, give_key |-> <<>>]
    IN  IF Cardinality(exact) < Len(get_entries)
        THEN FuzzyFrom(get_entries, give_entries, 1, m)
        ELSE m

\* lines 552-563: what is rendered for one name of overlap_names, give_entry
\* being give_entries.get(give_key, give_entries.get(name_key))
OverlapEntry(get_entries, give_entries, m, name_key) ==
    LET get_entry == EntryOf(get_entries, name_key)
        give_key == IF name_key \in DictKeys(m.give_key)
                    THEN EntryOf(m.give_key, name_key) ELSE name_key
        found == IF give_key \in DictKeys(give_entries) THEN give_key
                 ELSE name_key
    IN  [key |-> name_key, heading |-> get_entry.heading,
         get_body |-> get_entry.body,
         give_body |-> EntryOf(give_entries, found).body]

\* if not give_entry: continue
HasGiveEntry(give_entries, m, name_key) ==
    \/ name_key \in DictKeys(give_entries)
    \/ /\ name_key \in DictKeys(m.give_key)
       /\ EntryOf(m.give_key, name_key) \in DictKeys(give_entries)

OverlapEntries(get_report, give_report) ==
    LET get_entries == extract_entries(get_report, GET)
        give_entries == extract_entries(give_report, GIVE)
        m == OverlapNames(get_entries, give_entries)
    IN  {OverlapEntry(get_entries, give_entries, m, n) :
            n \in {k \in m.names : HasGiveEntry(give_entries, m, k)}}

\* the names the reports are written about: a name, the same name in lower
\* case, and names one letter away from it or from each other
Jon == <<"J", "o", "n">>
ReportNames ==
    {Jon, LowerStr(Jon), <<"J", "o", "h", "n">>, <<"J", "h", "n">>,
     <<"J", "a", "n">>}

\* "First Last (em dash) Role, Organization", as the final prompt asks
PlainHeading(name) == name \o <<" ", EmDash, " ", "R">>

Headings == {PlainHeading(n) : n \in ReportNames}

\* the reports of at most MaxEntries parts the service may write
Reports == UNION {[1..n -> Headings] : n \in 0..MaxEntries}

\* the rosters' build_swapcard_lookup: nobody has a link, or "jon" has one
Lookups == {{}, {LowerStr(Jon)}}

Hyphen == "-"

\* if best_match and best_score >= 80
LinkThreshold == 80

\* replace_heading, lines 44-68: the name is linked when its stripped,
\* lower-cased text is in the lookup or close enough to a name that is
HasLink(name, swapcard_lookup) ==
    LET name_lower == LowerStr(Strip(name))
    IN  \/ name_lower \in swapcard_lookup
        \/ \E lookup_name \in swapcard_lookup :
              RatioAtLeast(name_lower, lookup_name, LinkThreshold)

\* re.sub over one heading, lines 71-75: group 2 is everything before the
\* first dash or hyphen, blanks included, and group 3 starts at that dash
InjectHeading(heading, swapcard_lookup) ==
    LET dashAt == {i \in 1..Len(heading) : heading[i] \in Dashes \cup {Hyphen}}
        cut == CHOOSE i \in dashAt : \A j \in dashAt : i <= j
        name == SubSeq(heading, 1, cut - 1)
        rest == SubSeq(heading, cut, Len(heading))
    IN  IF dashAt # {} /\ cut > 1 /\ cut < Len(heading)
           /\ HasLink(name, swapcard_lookup)
        THEN <<"[">> \o name \o <<"]", "(", "u", ")">> \o rest
        ELSE heading

inject_swapcard_links(report, swapcard_lookup) ==
    [k \in 1..Len(report) |-> InjectHeading(report[k], swapcard_lookup)]

\* a session whose run has stored its two reports, links injected (lines
\* 416-418 and 458-459)
InitOverlap ==
    /\ df_index = <<>>
    /\ user_idx = NoneIdx
    /\ chunk_size = 1
    /\ pc = [d \in Dirs |-> "off"]
    /\ coord = "ended"
    /\ Fresh
    /\ \E swapcard_lookup \in Lookups :
       \E get_response, give_response \in Reports :
          /\ recommendations_get =
                inject_swapcard_links(get_response, swapcard_lookup)
          /\ recommendations_give =
                inject_swapcard_links(give_response, swapcard_lookup)
    /\ overlap = NoOverlap
    /\ total_batches = 0
    /\ session = [SessionAt(NoneIdx) EXCEPT
                     !.runs = 1,
                     !.scoring_status_get = <<"status", 1, GET>>,
                     !.scoring_status_give = <<"status", 1, GIVE>>]

\* with main_tab3: the tab is drawn from the stored reports
RenderOverlap ==
    /\ recommendations_get # NoReport
    /\ ~overlap.rendered
    /\ overlap' = [rendered |-> TRUE,
                   entries |-> OverlapEntries(recommendations_get,
                                              recommendations_give)]
    /\ UNCHANGED <<df_index, user_idx, chunk_size, pc, total_count, batches,
                   tasks, results, progress_log, final_cb, all_scores,
                   top_items, final_attempt, final_events, status_messages,
                   error, result, first_exc, coord, ret, since_last,
                   last_gap, late_return, recommendations_get,
                   recommendations_give, final_wait, progress_state,
                   total_batches, session>>

-----------------------------------------------------------------------------
(* The session: src/app.py, check_password (143-183) and main (186-578).   *)
(* One action is one run of the script, from the interaction that started  *)
(* it to st.stop(), st.rerun() or the end of main().                       *)

\* what the session actions leave alone: the pipeline's own state
pipelineVars ==
    <<df_index, user_idx, chunk_size, pc, total_count, batches, tasks,
      results, progress_log, final_cb, all_scores, top_items, final_attempt,
      status_messages, error, result, first_exc, coord, ret, since_last,
      last_gap, late_return, final_events, final_wait, progress_state,
      total_batches, overlap>>

\* a new browser session
InitSession ==
    /\ df_index = <<>>
    /\ user_idx = NoneIdx
    /\ chunk_size = 1
    /\ pc = [d \in Dirs |-> "off"]
    /\ coord = "idle"
    /\ Fresh
    /\ recommendations_get = NoReport
    /\ recommendations_give = NoReport
    /\ overlap = NoOverlap
    /\ total_batches = 0
    /\ \E ok \in BOOLEAN : session = NewSession(ok)

\* a comparison that lets every password through
PasswordMatchesAny(password_input) == TRUE

\* hmac.compare_digest(password_input, config["app_password"])
PasswordMatches(password_input) == password_input = AppPassword

\* lockout_seconds = 2 ** st.session_state.failed_attempts
LockoutSeconds(failed_attempts) == 2 ^ failed_attempts

\* lines 162-183: a password is typed and Enter or "Unlock" submits it; an
\* unchanged text is submitted only by the button
SubmitPassword(password_input, unlock_button) ==
    /\ session.config_ok
    /\ ~session.authenticated
    /\ unlock_button \/ password_input # session.last_password_attempt
    /\ IF PasswordMatches(password_input)
       THEN session' = [session EXCEPT
                           !.last_password_attempt = password_input,
                           !.authenticated = TRUE,
                           !.failed_attempts = 0]
       ELSE /\ session.failed_attempts < MaxFailed
            /\ session' = [session EXCEPT
                   !.last_password_attempt = password_input,
                   !.failed_attempts = @ + 1,
                   !.lockout_left =
                       IF session.failed_attempts + 1 >= LockoutAfter
                       THEN LockoutSeconds(session.failed_attempts + 1)
                       ELSE 0]
    /\ UNCHANGED <<recommendations_get, recommendations_give>>
    /\ UNCHANGED pipelineVars

\* the seconds of the wait the lockout message announces go by
LockoutPasses ==
    /\ session.lockout_left > 0
    /\ session' = [session EXCEPT !.lockout_left = 0]
    /\ UNCHANGED <<recommendations_get, recommendations_give>>
    /\ UNCHANGED pipelineVars

\* lines 191-221: past the password check the roster is downloaded and
\* filtered; the download may fail and stop the script, and so may the
\* filter after it
LoadRoster ==
    /\ session.authenticated
    /\ ~session.df_filtered
    /\ \E filtered \in BOOLEAN :
          session' = [session EXCEPT !.df = TRUE, !.df_filtered = filtered]
    /\ UNCHANGED <<recommendations_get, recommendations_give>>
    /\ UNCHANGED pipelineVars

\* what can be typed into the name field
Names == {"ann", "bob"}

\* lines 228-295: a name is typed and Enter or "Search" submits it; an
\* unchanged name is searched again only by the button. With matches the
\* select box comes up on its first option, a roster row, in the same run;
\* without, the earlier selection stays
Search(name, search_button) ==
    /\ session.authenticated /\ session.df /\ session.df_filtered
    /\ search_button \/ name # session.last_searched_name
    /\ \E found \in BOOLEAN :
          session' = [session EXCEPT
                         !.last_searched_name = name,
                         !.search_performed = found,
                         !.selected_match = IF found THEN "csv" ELSE @]
    /\ UNCHANGED <<recommendations_get, recommendations_give>>
    /\ UNCHANGED pipelineVars

\* lines 253-295: another option of the select box is taken: a roster row,
\* or the custom profile, which counts once its text is not blank
SelectOption ==
    /\ session.authenticated /\ session.df /\ session.df_filtered
    /\ session.search_performed
    /\ \E choice \in {"csv", "custom"} :
          session' = [session EXCEPT !.selected_match = choice]
    /\ UNCHANGED <<recommendations_get, recommendations_give>>
    /\ UNCHANGED pipelineVars

\* what the k-th dual run of the session returns for direction d: the
\* report, links injected, and the status log
ReportOf(k, d) == <<"report", k, d>>
StatusOf(k, d) == <<"status", k, d>>

\* a handler that stores the GET half and leaves the GIVE half as it was
StoreGetOnly(k) ==
    /\ recommendations_get' = ReportOf(k, GET)
    /\ UNCHANGED recommendations_give
    /\ session' = [session EXCEPT !.runs = k,
                                  !.scoring_status_get = StatusOf(k, GET)]

\* lines 458-461
StoreResults(k) ==
    /\ recommendations_get' = ReportOf(k, GET)
    /\ recommendations_give' = ReportOf(k, GIVE)
    /\ session' = [session EXCEPT !.runs = k,
                                  !.scoring_status_get = StatusOf(k, GET),
                                  !.scoring_status_give = StatusOf(k, GIVE)]

\* lines 331-467: "Generate" runs the dual pipeline to its end; it returns
\* both results, which are stored, or raises, and the script stops
Generate ==
    /\ session.authenticated /\ session.df /\ session.df_filtered
    /\ session.selected_match # "none"
    /\ session.runs < MaxRuns
    /\ \/ StoreResults(session.runs + 1)
       \/ /\ session' = [session EXCEPT !.runs = @ + 1]
          /\ UNCHANGED <<recommendations_get, recommendations_give>>
    /\ UNCHANGED pipelineVars

\* lines 569-578: "Start New Search", shown under the results
StartNewSearch ==
    /\ session.authenticated /\ session.df /\ session.df_filtered
    /\ recommendations_get # NoReport
    /\ recommendations_get' = NoReport
    /\ recommendations_give' = NoReport
    /\ session' = [session EXCEPT !.search_performed = FALSE,
                                  !.selected_match = "none",
                                  !.last_searched_name = "",
                                  !.scoring_status_get = NoReport,
                                  !.scoring_status_give = NoReport]
    /\ UNCHANGED pipelineVars

-----------------------------------------------------------------------------
(* Specifications *)

Next ==
    \/ \E d \in Dirs : Start(d)
    \/ \E d \in Dirs : \E b \in 1..Len(tasks[d]) : Respond(d, b)
    \/ \E d \in Dirs : \E b \in 1..Len(tasks[d]) : Wake(d, b)
    \/ \E d \in Dirs : FinalRespond(d)
    \/ \E d \in Dirs : FinalWake(d)
    \/ GatherReturn
    \/ GatherRaise

Spec == Init /\ [][Next]_vars

NextPipeline ==
    \/ \E d \in Dirs : Start(d)
    \/ \E d \in Dirs : \E b \in 1..Len(tasks[d]) : Respond(d, b)
    \/ \E d \in Dirs : \E b \in 1..Len(tasks[d]) : Wake(d, b)
    \/ \E d \in Dirs : FinalRespond(d)
    \/ \E d \in Dirs : FinalWake(d)
    \/ RunEnds

SpecPipeline == InitPipeline /\ [][NextPipeline]_vars

\* the event loop runs every coroutine that can run, every service call
\* comes back and every sleep ends
Scheduling ==
    /\ \A d \in Dirs : WF_vars(Start(d))
    /\ \A d \in Dirs : \A b \in 1..LiveRoster : WF_vars(Respond(d, b))
    /\ \A d \in Dirs : \A b \in 1..LiveRoster : WF_vars(Wake(d, b))
    /\ \A d \in Dirs : WF_vars(FinalRespond(d))
    /\ \A d \in Dirs : WF_vars(FinalWake(d))

SpecLive == InitLive /\ [][NextPipeline]_vars /\ Scheduling

\* the same run with the clock: a retry needs its sleep to have elapsed
NextTimed ==
    \/ \E d \in Dirs : Start(d)
    \/ \E d \in Dirs : \E b \in 1..Len(tasks[d]) : Respond(d, b)
    \/ \E d \in Dirs : \E b \in 1..Len(tasks[d]) : WakeDue(d, b)
    \/ \E d \in Dirs : FinalRespond(d)
    \/ \E d \in Dirs : FinalWakeDue(d)
    \/ GatherReturn
    \/ GatherRaise
    \/ Tick

SpecTimed == Init /\ [][NextTimed]_vars

\* one direction on its own, with the clock
NextPipelineTimed ==
    \/ \E d \in Dirs : Start(d)
    \/ \E d \in Dirs : \E b \in 1..Len(tasks[d]) : Respond(d, b)
    \/ \E d \in Dirs : \E b \in 1..Len(tasks[d]) : WakeDue(d, b)
    \/ \E d \in Dirs : FinalRespond(d)
    \/ \E d \in Dirs : FinalWakeDue(d)
    \/ RunEnds
    \/ Tick

SpecPipelineTimed == InitLive /\ [][NextPipelineTimed]_vars

NextPartition == \E d \in Dirs : Start(d)

SpecPartition == InitPartition /\ [][NextPartition]_vars

NextSession ==
    \/ \E password_input \in Passwords : \E unlock_button \in BOOLEAN :
          SubmitPassword(password_input, unlock_button)
    \/ LockoutPasses
    \/ LoadRoster
    \/ \E name \in Names : \E search_button \in BOOLEAN :
          Search(name, search_button)
    \/ SelectOption
    \/ Generate
    \/ StartNewSearch

SpecSession == InitSession /\ [][NextSession]_vars

NextOverlap == RenderOverlap

SpecOverlap == InitOverlap /\ [][NextOverlap]_vars

-----------------------------------------------------------------------------
(* Properties *)

\* the indices left once the requester's own is gone
Remaining == Range(df_index) \ {user_idx}

Partitioned(d) == pc[d] \notin {"off", "init"}

BatchesHolding(d, i) == {k \in 1..Len(batches[d]) : i \in Range(batches[d][k])}

\* C1: for every index list and every batch size, partitioning drops the
\* requester's index and makes ceil(M/B) batches of the M remaining indices;
\* every remaining index is in exactly one batch, none is there twice, and
\* the requester's index is in none.
C1_PartitionExact ==
    \A d \in Dirs : Partitioned(d) =>
        LET M == Cardinality(Remaining)
            n == Len(batches[d])
            flat == Flatten(batches[d])
        IN  /\ n * chunk_size >= M
            /\ (n - 1) * chunk_size < M
            /\ \A i \in Remaining : Cardinality(BatchesHolding(d, i)) = 1
            /\ Len(flat) = M
            /\ Range(flat) = Remaining
            /\ user_idx \notin Range(flat)
            /\ total_count[d] = M

\* the requester was in the roster, and the last of several batches is short
C1_Witness ==
    \E d \in Dirs :
        /\ Partitioned(d)
        /\ user_idx \in Range(df_index)
        /\ Len(batches[d]) >= 2
        /\ Len(batches[d][Len(batches[d])]) < chunk_size

Exhausted(d) == \E b \in 1..Len(tasks[d]) : tasks[d][b].st = "failed"

\* C2: once a batch of a direction has used up its retries, the direction
\* has failed and nothing was built from the batches that did succeed: no
\* merged scores, no filtered list, no final-stage callback, no final-report
\* request, no result.
C2_NoPartialData ==
    \A d \in Dirs : Exhausted(d) =>
        /\ pc[d] = "failed"
        /\ all_scores[d] = <<>>
        /\ top_items[d] = <<>>
        /\ final_cb[d] = 0
        /\ final_attempt[d] = 0
        /\ result[d] = NoResult

\* one batch failed for good, a sibling had delivered before it and another
\* one returned after it
C2_Witness ==
    \E d \in Dirs :
        /\ Exhausted(d)
        /\ Len(results[d]) >= 1
        /\ \E b \in 1..Len(tasks[d]) :
              /\ tasks[d][b].st = "done"
              /\ \A k \in 1..Len(results[d]) : results[d][k].batch_num # b

BatchError == "Batch b failed after n attempts"

\* C3: an attempt that fails before the third one only puts its task to sleep
\* and leaves the direction as it is; the third attempt's answer, when it
\* decodes, is what the pipeline receives for that batch, and no batch
\* failure is raised; a third failure fails the task and the direction, with
\* the failure naming that batch.
C3_ThirdAttempt ==
    [][\A d \in Dirs : \A b \in 1..Len(tasks[d]) :
          (tasks[d][b].st = "call" /\ tasks'[d][b].st # "call") =>
              LET t == tasks[d][b]
                  t2 == tasks'[d][b]
                  last == results'[d][Len(results'[d])]
              IN  /\ t2.st \in {"sleep", "failed", "done"}
                  /\ t2.st = "sleep" =>
                        /\ t.attempt < MaxAttempts
                        /\ pc'[d] = pc[d]
                        /\ error'[d] = error[d]
                  /\ t2.st = "failed" =>
                        /\ t.attempt = MaxAttempts
                        /\ pc'[d] = "failed"
                        /\ pc[d] = "scoring" =>
                              error'[d] = <<BatchError, b, MaxAttempts>>
                  /\ (t2.st = "done" /\ pc[d] = "scoring") =>
                        /\ Len(results'[d]) = Len(results[d]) + 1
                        /\ last.batch_num = b
                        /\ DictKeys(last.scores) = Range(batches[d][b])
                        /\ error'[d][1] # BatchError
      ]_vars

\* a batch was answered on its third attempt and its direction went on to
\* deliver its report
C3_Witness ==
    /\ late_return
    /\ \E d \in Dirs : pc[d] = "done" /\ Len(results[d]) = Len(batches[d])

InRange(v) == IsNumber(v) /\ v[2] \in 0..10

\* C4: every value of every score map, a batch's or the merged one, is an
\* integer in 0..10.
C4_ScoresInRange ==
    \A d \in Dirs :
        /\ \A k \in 1..Len(results[d]) :
              \A i \in 1..Len(results[d][k].scores) :
                  InRange(results[d][k].scores[i][2])
        /\ \A i \in 1..Len(all_scores[d]) : InRange(all_scores[d][i][2])

AllSucceeded(d) ==
    /\ Len(tasks[d]) >= 1
    /\ \A b \in 1..Len(tasks[d]) : tasks[d][b].st = "done"

\* C5: the progress callback has been called once for every batch result the
\* pipeline has taken, the k-th call with (k, total); when every batch of a
\* direction has succeeded that is once per batch, ending with (total, total).
C5_ProgressOncePerBatch ==
    \A d \in Dirs :
        /\ progress_log[d] =
              [k \in 1..Len(results[d]) |-> <<k, Len(batches[d])>>]
        /\ AllSucceeded(d) => Len(progress_log[d]) = Len(batches[d])

\* every batch of several succeeded, and the second one finished first
C5_Witness ==
    \E d \in Dirs :
        /\ AllSucceeded(d)
        /\ Len(batches[d]) >= 2
        /\ results[d][1].batch_num = 2
        /\ progress_log[d][Len(progress_log[d])] =
              <<Len(batches[d]), Len(batches[d])>>

\* the filter of lines 343-347 ran to its end
FilterRan(d) ==
    \E i \in 1..Len(status_messages[d]) :
        status_messages[d][i][1] = "k profiles scored m+"

\* C6: the list threshold filtering returns holds exactly the pairs of the
\* merged map whose score is at least minScore, each once, and scores never
\* increase along it.
C6_FilterExact ==
    \A d \in Dirs : FilterRan(d) =>
        /\ \A i \in 1..Len(all_scores[d]) :
              (all_scores[d][i][2][2] >= MinScore)
                  <=> (all_scores[d][i] \in Range(top_items[d]))
        /\ Range(top_items[d]) \subseteq Range(all_scores[d])
        /\ Cardinality(Range(top_items[d])) = Len(top_items[d])
        /\ \A i, j \in 1..Len(top_items[d]) :
              i < j => top_items[d][i][2][2] >= top_items[d][j][2][2]

\* a candidate below the threshold was dropped and two kept ones swapped
C6_Witness ==
    \E d \in Dirs :
        /\ FilterRan(d)
        /\ Len(all_scores[d]) = 3
        /\ Len(top_items[d]) = 2
        /\ \E i, j \in 1..3 :
              /\ i < j
              /\ all_scores[d][j] = top_items[d][1]
              /\ all_scores[d][i] = top_items[d][2]
              /\ top_items[d][1][2][2] > top_items[d][2][2][2]

ScoringOver(d) == Partitioned(d) /\ Len(results[d]) = Len(batches[d])

NoneQualifies(d) ==
    \A i \in 1..Len(all_scores[d]) :
        ~(IsNumber(all_scores[d][i][2]) /\ all_scores[d][i][2][2] >= MinScore)

NoQualifying == <<"No profiles scored m+", MinScore, 0>>

\* C7: when the scores are in and none reaches minScore, the direction has
\* failed with the no-qualifying-candidates error, the final-stage callback
\* was not called and no final-report request was made.
C7_NoQualifyingFails ==
    \A d \in Dirs : (ScoringOver(d) /\ NoneQualifies(d)) =>
        /\ pc[d] = "failed"
        /\ error[d] = NoQualifying
        /\ final_cb[d] = 0
        /\ final_attempt[d] = 0

\* C8: the coordinator returns only when both directions have delivered, and
\* then the GET result first and the GIVE result second; it raises only when
\* a direction has failed, and never returns once one has.
C8_BothOrFail ==
    /\ coord = "returned" =>
          /\ \A d \in Dirs : pc[d] = "done"
          /\ Len(ret) = 2
          /\ ret[1] = result[GET] /\ ret[1].status[1][1] = "GET value"
          /\ ret[2] = result[GIVE] /\ ret[2].status[1][1] = "GIVE value"
    /\ coord = "raised" => \E d \in Dirs : pc[d] = "failed"
    /\ (\E d \in Dirs : pc[d] = "failed") => coord # "returned"
    /\ (\A d \in Dirs : pc[d] = "done") => coord # "raised"

\* both delivered, with different scores
C8_Witness ==
    /\ coord = "returned"
    /\ ret[1].scores # ret[2].scores

\* C9: two successive service requests are never less than one clock unit,
\* 60/maxPerMinute seconds, apart.
C9_MinInterval == last_gap # 0

\* requests of batch tasks that are with the service now
CallsOf(d) == Cardinality({b \in 1..Len(tasks[d]) : tasks[d][b].st = "call"})

RequestsOutstanding ==
    CallsOf(GET) + CallsOf(GIVE)
    + Cardinality({d \in Dirs : pc[d] = "final_call"})

\* grants of the shared Rate Limiter: neither score_one_batch nor the
\* final-report loop asks for one before client.chat.completions.create
LimiterGrants == 0

\* C10: every request that is with the service was granted by the limiter.
C10_CallNeedsGrant == RequestsOutstanding <= LimiterGrants

\* the profile indices a direction dispatched in its batches
Dispatched(d) == Range(Flatten(batches[d]))

\* C13: once every batch of a direction has delivered, the merged map has
\* one entry for each index dispatched in a batch and no other: its keys are
\* those indices, each once, whatever order the batches completed in.
C13_MergedKeysExact ==
    \A d \in Dirs : ScoringOver(d) =>
        /\ DictKeys(all_scores[d]) = Dispatched(d)
        /\ Len(all_scores[d]) = Cardinality(Dispatched(d))
        /\ \A i \in Dispatched(d) :
              Cardinality({k \in 1..Len(all_scores[d]) :
                              all_scores[d][k][1] = i}) = 1

\* three batches delivered, the last one first, and the response to one of
\* them left its ordinal out
C13_Witness ==
    \E d \in Dirs :
        /\ ScoringOver(d)
        /\ Len(batches[d]) = 3
        /\ results[d][1].batch_num = 3
        /\ Len(all_scores[d]) = 3
        /\ \E k \in 1..3 : all_scores[d][k][2] = IntVal(0)

FinalCallbacks(d) ==
    Cardinality({i \in 1..Len(final_events[d]) :
                    final_events[d][i] = "final_callback"})

ReachedReport(d) == pc[d] \in {"final_call", "final_sleep", "final_due", "done"}

\* C14: a direction that reaches report generation has had the final-stage
\* callback called exactly once, and before its first final-report request;
\* a retry of the final call does not call it again; a direction that failed
\* in scoring or thresholding never had it called.
C14_FinalCallbackOnce ==
    \A d \in Dirs :
        /\ final_cb[d] = FinalCallbacks(d)
        /\ final_cb[d] <= 1
        /\ ReachedReport(d) => final_cb[d] = 1
        /\ final_attempt[d] >= 1 =>
              /\ final_events[d][1] = "final_callback"
              /\ \A i \in 2..Len(final_events[d]) :
                    final_events[d][i] = "request"
              /\ Len(final_events[d]) = 1 + final_attempt[d]
        /\ final_attempt[d] = 0 => final_events[d] = <<>>
        /\ (pc[d] = "failed" /\ error[d][1] # "Final call failed") =>
              final_cb[d] = 0

\* the final call was retried twice after one callback
C14_Witness ==
    \E d \in Dirs :
        /\ final_attempt[d] = MaxAttempts
        /\ final_events[d] =
              <<"final_callback", "request", "request", "request">>

\* C15: an answer to the final-report request either delivers the report,
\* with the whole merged map and the status log, or, being empty or an
\* error, leads to a sleep before another attempt when it was attempt 1 or
\* 2, or fails the direction when it was attempt 3; there is never a fourth
\* attempt.
C15_FinalAttempts ==
    [][\A d \in Dirs :
          /\ final_attempt'[d] <= MaxAttempts
          /\ (pc[d] = "final_call" /\ pc'[d] # "final_call") =>
                /\ pc'[d] \in {"done", "final_sleep", "failed"}
                /\ pc'[d] = "done" =>
                      /\ result'[d].text = "report"
                      /\ result'[d].scores = all_scores[d]
                      /\ DictKeys(result'[d].scores) = Dispatched(d)
                      /\ result'[d].status = status_messages'[d]
                /\ pc'[d] = "final_sleep" =>
                      /\ final_attempt[d] < MaxAttempts
                      /\ result'[d] = NoResult
                      /\ error'[d] = NoError
                /\ pc'[d] = "failed" =>
                      /\ final_attempt[d] = MaxAttempts
                      /\ result'[d] = NoResult
                      /\ error'[d] = <<"Final call failed", MaxAttempts, 0>>
          /\ (pc[d] \in {"final_sleep", "final_due"} /\ pc'[d] # pc[d]) =>
                /\ pc'[d] \in {"final_call", "final_due"}
                /\ pc'[d] = "final_call" =>
                      final_attempt'[d] = final_attempt[d] + 1
      ]_vars

\* the third final attempt delivered the report, and a scored candidate was
\* below the threshold
C15_Witness ==
    \E d \in Dirs :
        /\ pc[d] = "done"
        /\ final_attempt[d] = MaxAttempts
        /\ result[d].scores = all_scores[d]
        /\ Len(all_scores[d]) > Len(top_items[d])

\* retries a direction has made that the state still shows: the attempts
\* after the first of every batch task that is not done, and of the final call
RetriesMade(d) ==
    Cardinality({bk \in (1..Len(tasks[d])) \X (2..MaxAttempts) :
                    bk[2] <= tasks[d][bk[1]].attempt})
    + Cardinality({k \in 2..MaxAttempts : k <= final_attempt[d]})

\* the lines of the status log that tell of a retry
RetryLines(d) ==
    Cardinality({i \in 1..Len(status_messages[d]) :
                    status_messages[d][i][1] = "Final call failed, retrying"})

\* C16: every retry a direction has made, of a batch or of the final call,
\* has its line in the direction's status log.
C16_RetriesLogged ==
    \A d \in Dirs : RetriesMade(d) <= RetryLines(d)

\* the surfaced exception names the direction
Mentions(exc, d) == exc[1] \in {d, DirectionLabel(d)}

\* C17: the failure the coordinator raises tells which direction failed.
C17_FailureAttributed ==
    coord = "raised" =>
        \E d \in Dirs : pc[d] = "failed" /\ Mentions(first_exc, d)

\* C18: when the coordinator has raised because one direction failed, the
\* result of a direction that delivered is still handed to the caller.
C18_SuccessKept ==
    \A d \in Dirs :
        (coord = "raised" /\ pc[d] = "done") => result[d] \in Range(ret)

\* the results in the order of their batch numbers
InBatchOrder(res) ==
    [k \in 1..Len(res) |->
        res[CHOOSE i \in 1..Len(res) : res[i].batch_num = k]]

\* C19: the filtered list is the one the same batch results give when they
\* arrive in batch order: the completion order has no part in it.
C19_OrderDeterministic ==
    \A d \in Dirs : FilterRan(d) =>
        top_items[d] = FilterTop(MergeResults(InBatchOrder(results[d])), MinScore)

Ended(d) == pc[d] \in {"done", "failed"}

\* C20: no batch task and no final-report loop goes beyond its third
\* attempt, a batch task that has returned or failed makes no further
\* request, so n batches make at most 3n scoring requests and the final call
\* at most 3; and a direction that is started ends, in success or failure.
C20_Terminates ==
    /\ [](\A d \in Dirs :
            /\ final_attempt[d] <= MaxAttempts
            /\ \A b \in 1..Len(tasks[d]) : tasks[d][b].attempt <= MaxAttempts)
    /\ [][\A d \in Dirs : \A b \in 1..Len(tasks[d]) :
            /\ tasks[d][b].st \in {"done", "failed"} =>
                  tasks'[d][b] = tasks[d][b]
            /\ tasks'[d][b].attempt \in
                  {0, tasks[d][b].attempt, tasks[d][b].attempt + 1}]_vars
    /\ \A d \in Dirs : (pc[d] = "init") ~> Ended(d)

\* a direction ended in failure after a batch needed its third attempt and
\* the final call used up all three
C20_Witness ==
    \E d \in Dirs :
        /\ pc[d] = "failed"
        /\ final_attempt[d] = MaxAttempts
        /\ late_return

-----------------------------------------------------------------------------
(* Properties of the overlap of two reports *)

\* a heading whose name has been made a link
Decorated(name) ==
    <<"[">> \o name \o <<" ", "]", "(", "u", ")", EmDash, " ", "R">>

\* the person a stored heading is written about
NameIn(heading) ==
    CHOOSE n \in ReportNames : heading \in {PlainHeading(n), Decorated(n)}

\* the same name up to letter case
SameName(a, b) ==
    Len(a) = Len(b) /\ \A i \in 1..Len(a) : Lower(a[i]) = Lower(b[i])

Folded(name) == [i \in 1..Len(name) |-> Lower(name[i])]

\* the lower-cased names a report has an entry for, as its headings give
\* them
FoldedNames(report) ==
    {Folded(ExtractName(report[k])) : k \in 1..Len(report)}

\* the ranks at which a report lists a name
RanksOf(report, name) ==
    {k \in 1..Len(report) : SameName(NameIn(report[k]), name)}

\* the overlap entries that show the body of one of these parts
ShowingGet(ranks) == {e \in overlap.entries : e.get_body[2] \in ranks}
ShowingGive(ranks) == {e \in overlap.entries : e.give_body[2] \in ranks}

Similar(a, b) == 20 * 2 * LCS(a, b) >= 17 * (Len(a) + Len(b))

\* the overlap entries that pair the GET name g with the GIVE name v
PairEntries(g, v) ==
    {e \in overlap.entries :
        /\ e.key = g
        /\ Folded(ExtractName(recommendations_give[e.give_body[2]])) = v}

\* the rank at which a report first lists a lower-cased name
FirstRank(report, key) ==
    CHOOSE k \in 1..Len(report) :
        /\ Folded(ExtractName(report[k])) = key
        /\ \A l \in 1..(k - 1) : Folded(ExtractName(report[l])) # key

\* neither name is in the other report, and no GIVE name before v that is
\* not in the GET report either is similar to g
FirstSufficient(g, v) ==
    /\ g \notin FoldedNames(recommendations_give)
    /\ v \notin FoldedNames(recommendations_get)
    /\ \A w \in FoldedNames(recommendations_give) :
          (/\ w \notin FoldedNames(recommendations_get)
           /\ FirstRank(recommendations_give, w)
                 < FirstRank(recommendations_give, v))
              => ~Similar(g, w)

-----------------------------------------------------------------------------
(* Properties of the batch scorer's retries *)

\* what one step does to the task of batch b of direction d
BackoffStep(t, t2) ==
    /\ t2.attempt <= MaxAttempts
    \* a failed attempt sleeps unless it was the third, for the delay the
    \* schedule has at its place
    /\ (t.st = "call" /\ t2.st \notin {"call", "done"}) =>
          /\ t2.st = "sleep" <=> t.attempt < MaxAttempts
          /\ t2.st = "failed" <=> t.attempt = MaxAttempts
          /\ t2.attempt = t.attempt
    /\ (t.st = "call" /\ t2.st = "sleep") =>
          t2.wait * ClockUnit = BackoffDelays[t.attempt]
    \* a sleep passes one unit at a time and ends when none is left
    /\ (t.st = "sleep" /\ t2 # t) =>
          /\ t2.attempt = t.attempt
          /\ \/ t.wait > 1 /\ t2.st = "sleep" /\ t2.wait = t.wait - 1
             \/ t.wait = 1 /\ t2.st = "due" /\ t2.wait = 0
    \* the next attempt starts from a sleep that is over, and only from one
    /\ (t2.attempt = t.attempt + 1) =>
          t.st = "due" /\ t.wait = 0 /\ t2.st = "call"
    /\ (t.st = "due" /\ t2 # t) =>
          t2.st = "call" /\ t2.attempt = t.attempt + 1

\* C21: a batch scorer makes at most three attempts; every failed attempt
\* but the third is followed by a sleep of backoff_delays[attempt] seconds
\* (5 after the first failure, 10 after the second), and an attempt after
\* the first starts only when the whole of that sleep has passed.
C21_BackoffBeforeRetry ==
    [][\A d \in Dirs : \A b \in 1..Len(tasks[d]) :
          BackoffStep(tasks[d][b], tasks'[d][b])]_vars

\* a third attempt is under way, both sleeps behind it
C21_Witness ==
    \E d \in Dirs : \E b \in 1..Len(tasks[d]) :
       /\ tasks[d][b].st = "call"
       /\ tasks[d][b].attempt = MaxAttempts

-----------------------------------------------------------------------------
(* Properties of the mapping from ordinals to profiles *)

\* the entry the result of a batch has for its j-th profile, given the
\* scores object the service returned
Mapped(batch, scores, j) ==
    <<batch[j], IF j \in DOMAIN scores THEN scores[j] ELSE IntVal(0)>>

\* C22: a batch whose response lacks some ordinals still returns a result:
\* it holds, for every profile of the batch in batch order, score 0 where
\* the ordinal of its 1-based position is absent and the returned value
\* where it is present.
C22_MissingIsZero ==
    \A d \in Dirs : \A i \in 1..Len(results[d]) :
       LET r == results[d][i]
           batch == batches[d][r.batch_num]
           t == tasks[d][r.batch_num]
       IN  /\ t.st = "done"
           /\ Len(r.scores) = Len(batch)
           /\ \A j \in 1..Len(batch) :
                 r.scores[j] = Mapped(batch, t.scores, j)

\* a result from a response that lacks one ordinal of the batch and has
\* another
C22_Witness ==
    \E d \in Dirs : \E i \in 1..Len(results[d]) :
       LET r == results[d][i]
           batch == batches[d][r.batch_num]
           t == tasks[d][r.batch_num]
       IN  /\ \E j \in 1..Len(batch) : j \notin DOMAIN t.scores
           /\ \E j \in 1..Len(batch) : j \in DOMAIN t.scores
           /\ pc[d] = "done"

-----------------------------------------------------------------------------
(* Properties of the order of the stages within a direction *)

\* every batch of the direction has returned and the pipeline has taken it
EveryBatchTaken(d) ==
    /\ Len(results[d]) = Len(batches[d])
    /\ \A b \in 1..Len(tasks[d]) : tasks[d][b].st = "done"

\* the place of the first line of that kind in the status log, 0 for none
LineAt(d, kind) ==
    LET at == {i \in 1..Len(status_messages[d]) :
                  status_messages[d][i][1] = kind}
    IN  IF at = {} THEN 0 ELSE CHOOSE i \in at : \A j \in at : i <= j

\* the merge, the filter or the final stage has left a trace
PastScoring(d) ==
    \/ all_scores[d] # <<>> \/ top_items[d] # <<>>
    \/ final_cb[d] > 0 \/ final_attempt[d] > 0 \/ final_events[d] # <<>>
    \/ LineAt(d, "All n batches scored") > 0
    \/ LineAt(d, "k profiles scored m+") > 0
    \/ LineAt(d, "Generating final top 25") > 0
    \/ pc[d] \in {"final_call", "final_sleep", "final_due", "done"}

StagesInOrder(d) ==
    /\ PastScoring(d) => EveryBatchTaken(d)
    /\ LineAt(d, "k profiles scored m+") > 0 =>
          /\ LineAt(d, "All n batches scored") > 0
          /\ LineAt(d, "All n batches scored")
                < LineAt(d, "k profiles scored m+")
    /\ final_events[d] # <<>> =>
          /\ LineAt(d, "k profiles scored m+") > 0
          /\ LineAt(d, "k profiles scored m+")
                < LineAt(d, "Generating final top 25")
          /\ final_events[d][1] = "final_callback"

\* the score map is written once, by the step of the pipeline that takes
\* the last result, with no batch of the direction left in flight
MapWrittenAtRest(d) ==
    all_scores'[d] # all_scores[d] =>
       /\ all_scores[d] = <<>>
       /\ pc[d] \in {"init", "scoring"}
       /\ pc'[d] # pc[d]
       /\ Len(results'[d]) = Len(batches'[d])
       /\ \A b \in 1..Len(tasks'[d]) : tasks'[d][b].st = "done"

\* C23: within a direction the merge, the filter, the final-stage callback
\* and every final-report call come only after every batch of the direction
\* has returned its result, in that order; the score map is written once,
\* by the pipeline's own step, and never while a batch of the direction is
\* in flight.
C23_StagesOrdered ==
    /\ [](\A d \in Dirs : StagesInOrder(d))
    /\ [][\A d \in Dirs : MapWrittenAtRest(d)]_vars

\* a direction of several batches has its report
C23_Witness ==
    \E d \in Dirs :
       /\ Len(batches[d]) >= 2
       /\ pc[d] = "done"
       /\ Len(all_scores[d]) = total_count[d]

-----------------------------------------------------------------------------
(* Properties of the two directions running side by side *)

\* d has a batch task waiting for the service or asleep
InFlight(d) ==
    \E b \in 1..Len(tasks[d]) : tasks[d][b].st \in {"call", "sleep"}

\* C24: while the coordinator runs, whatever a direction is waiting for (the
\* answer to a batch request, the end of a backoff sleep, the answer to a
\* final-report request) can come next, wherever the other direction is,
\* and GIVE can start as soon as GET has made its requests: no batch and no
\* final report of one direction waits for the other.
C24_NoCrossWaiting ==
    \A d \in Dirs : coord = "running" =>
       /\ (pc[d] = "init" /\ (d = GIVE => pc[GET] # "init")) =>
             ENABLED Start(d)
       /\ \A b \in 1..Len(tasks[d]) :
             /\ tasks[d][b].st = "call" => ENABLED Respond(d, b)
             /\ tasks[d][b].st = "sleep" => ENABLED Wake(d, b)
       /\ pc[d] = "final_call" => ENABLED FinalRespond(d)
       /\ pc[d] = "final_sleep" => ENABLED FinalWake(d)

\* GET has returned its report while a batch of GIVE is still in flight
C24_Witness ==
    /\ coord = "running"
    /\ pc[GET] = "done" /\ result[GET] # NoResult
    /\ pc[GIVE] = "scoring" /\ InFlight(GIVE)

\* the roles exchanged: GIVE has returned its report while a batch of GET is
\* still in flight
C24_WitnessGiveFirst ==
    /\ coord = "running"
    /\ pc[GIVE] = "done" /\ result[GIVE] # NoResult
    /\ pc[GET] = "scoring" /\ InFlight(GET)

-----------------------------------------------------------------------------
(* Properties of the approximate matching and of the link decoration *)

\* C25: every cross-reference is recorded once: no GET entry is shown with
\* two GIVE entries and no GIVE entry, matched exactly or approximately, is
\* shown with two GET entries.
C25_MatchedOnce ==
    overlap.rendered =>
        \A e1, e2 \in overlap.entries :
            (e1.get_body = e2.get_body \/ e1.give_body = e2.give_body)
                => e1 = e2

-----------------------------------------------------------------------------
(* Properties of the slicing into batches *)

\* the roster's indices without the requester's, in roster order
RemainingInOrder == SelectSeq(df_index, LAMBDA i : i # user_idx)

\* C26: the batches, taken in the order of their numbers 1..N, are
\* consecutive slices of the remaining indices in roster order; every batch
\* but the last holds exactly chunk_size indices and the last holds between
\* 1 and chunk_size; batch number k belongs to exactly one task, the k-th.
C26_ConsecutiveSlices ==
    \A d \in Dirs : Partitioned(d) =>
        LET n == Len(batches[d])
        IN  /\ Flatten(batches[d]) = RemainingInOrder
            /\ \A k \in 1..(n - 1) : Len(batches[d][k]) = chunk_size
            /\ n >= 1 => Len(batches[d][n]) \in 1..chunk_size
            /\ DOMAIN tasks[d] = 1..n
            /\ \A k \in 1..n :
                  batches[d][k] =
                     SubSeq(RemainingInOrder, (k - 1) * chunk_size + 1,
                            (k - 1) * chunk_size + Len(batches[d][k]))

\* several batches, the last one short, cut from a roster whose first
\* index was the requester's
C26_Witness ==
    \E d \in Dirs :
        /\ Partitioned(d)
        /\ Len(batches[d]) >= 2
        /\ Len(batches[d][Len(batches[d])]) < chunk_size
        /\ df_index # <<>> /\ user_idx = df_index[1]
        /\ DOMAIN tasks[d] = 1..Len(batches[d])

-----------------------------------------------------------------------------
(* Properties of a run with nobody to score *)

\* C27: when no index remains after the requester's is dropped (an empty
\* roster, or a roster of the requester alone) the direction has no batch
\* and has failed by the time it first yields: no task, no service request,
\* no progress callback, no final-stage callback, no report.
C27_EmptyFailsAtOnce ==
    \A d \in Dirs : (Partitioned(d) /\ RemainingInOrder = <<>>) =>
        /\ batches[d] = <<>> /\ tasks[d] = <<>>
        /\ pc[d] = "failed"
        /\ error[d] # NoError
        /\ since_last = -1 /\ last_gap = -1
        /\ final_attempt[d] = 0 /\ final_events[d] = <<>>
        /\ progress_log[d] = <<>>
        /\ final_cb[d] = 0
        /\ result[d] = NoResult

\* the roster held the requester alone, and the direction has failed
C27_Witness ==
    \E d \in Dirs :
        /\ Len(df_index) = 1 /\ user_idx = df_index[1]
        /\ pc[d] = "failed"
        /\ total_count[d] = 0

\* the roster was empty, and the direction has failed
C27_WitnessEmptyRoster ==
    \E d \in Dirs :
        /\ df_index = <<>>
        /\ pc[d] = "failed"
        /\ total_count[d] = 0

\* the heading as the service wrote it, before a link was put around its
\* name
Undecorated(heading) ==
    IF heading # <<>> /\ heading[1] = "["
    THEN SelectSeq(heading, LAMBDA c : c \notin {"[", "]", "(", "u", ")"})
    ELSE heading

Original(report) == [k \in 1..Len(report) |-> Undecorated(report[k])]

\* which part of the GET report is shown with which part of the GIVE report
Pairs(entries) == {<<e.get_body, e.give_body>> : e \in entries}

\* the extracted name is the one of the undecorated heading
C28_NameKept ==
    overlap.rendered =>
        \A k \in 1..Len(recommendations_get) :
            ExtractName(recommendations_get[k])
                = ExtractName(Undecorated(recommendations_get[k]))

\* the tab pairs the parts the original reports would have paired
C28_OverlapKept ==
    overlap.rendered =>
        Pairs(overlap.entries)
            = Pairs(OverlapEntries(Original(recommendations_get),
                                   Original(recommendations_give)))

\* C28: for every heading the name extracted after inject_swapcard_links
\* has wrapped it in a link equals the name extracted from the undecorated
\* heading, and the overlap shown for the decorated reports pairs the same
\* parts as the overlap of the original reports.
C28_DecorationTransparent == C28_NameKept /\ C28_OverlapKept

-----------------------------------------------------------------------------
(* Properties of the progress display of the dual run *)

\* the batch results the pipelines have taken, both directions together
BatchesCompleted == Len(results[GET]) + Len(results[GIVE])

\* the batch tasks the pipelines have created, both directions together
BatchesDispatched == Len(batches[GET]) + Len(batches[GIVE])

\* C29: when the dual run has returned both reports, progress_state's
\* completed count equals the number of batches completed in the two
\* directions together, whatever the interleaving was.
C29_AllCounted ==
    coord = "returned" => progress_state.completed = BatchesCompleted

\* C30: the total the progress display uses equals the number of batches
\* the two pipelines dispatch, for every roster and requester, and the
\* completed count it shows never exceeds that total.
C30_TotalMatches ==
    /\ (\A d \in Dirs : Partitioned(d)) => total_batches = BatchesDispatched
    /\ progress_state.completed <= total_batches

-----------------------------------------------------------------------------
(* The password gate *)

\* what main() keeps of the roster load, the search and the dual runs
BehindTheGate ==
    <<session.df, session.df_filtered, session.last_searched_name,
      session.search_performed, session.selected_match, session.runs,
      session.scoring_status_get, session.scoring_status_give,
      recommendations_get, recommendations_give>>

\* C31: a session is authenticated only after a submission of the
\* configured password, which is then the last one submitted; a step taken
\* while authenticated is false loads no roster, searches nothing and runs
\* no pipeline; and a failed submission leaves authenticated false
C31_GateHolds ==
    /\ [](session.authenticated =>
            /\ session.config_ok
            /\ session.last_password_attempt = AppPassword)
    /\ [][/\ ~session.authenticated => BehindTheGate' = BehindTheGate
          /\ session'.failed_attempts > session.failed_attempts =>
                ~session'.authenticated]_vars

\* an unlocked session that has loaded the roster and made a dual run
C31_Witness ==
    /\ session.authenticated
    /\ session.df /\ session.df_filtered
    /\ session.runs >= 1
    /\ recommendations_get # NoReport

\* a locked session, three failed submissions on
C31_WitnessFailed ==
    /\ ~session.authenticated
    /\ session.failed_attempts = 3
    /\ session.last_password_attempt = "wrong"

\* the message of lines 158-160 is up and the wait it names is not over
LockedOut ==
    /\ session.failed_attempts >= LockoutAfter
    /\ session.lockout_left > 0

\* C32: from 5 failed attempts on, no submission is accepted, whatever the
\* password, before the announced wait has passed: no step taken while
\* locked out ends authenticated
C32_LockoutEnforced ==
    [][LockedOut => ~session'.authenticated]_vars

-----------------------------------------------------------------------------
(* The stored results *)

\* the four results the session stores
Stored ==
    <<recommendations_get, recommendations_give,
      session.scoring_status_get, session.scoring_status_give>>

\* what the k-th dual run stores
StoredBy(k) ==
    <<ReportOf(k, GET), ReportOf(k, GIVE), StatusOf(k, GET), StatusOf(k, GIVE)>>

NothingStored == <<NoReport, NoReport, NoReport, NoReport>>

\* C33: the stored GET and GIVE reports, with the two status logs, are all
\* absent or all those of one and the same dual run; a dual run that fails
\* leaves the four unchanged; and a step that clears the reports clears the
\* four together and leaves authenticated, df and df_filtered unchanged
C33_StoredTogether ==
    /\ [](\/ Stored = NothingStored
          \/ \E k \in 1..session.runs : Stored = StoredBy(k))
    /\ [][/\ (/\ session'.runs = session.runs + 1
              /\ Stored' # StoredBy(session'.runs))
                => Stored' = Stored
          /\ (recommendations_get # NoReport /\ recommendations_get' = NoReport)
                => /\ Stored' = NothingStored
                   /\ session'.authenticated = session.authenticated
                   /\ session'.df = session.df
                   /\ session'.df_filtered = session.df_filtered
                   /\ session.authenticated /\ session.df
                   /\ session.df_filtered]_vars

\* the second dual run has failed and the first run's results are still
\* the stored ones
C33_Witness ==
    /\ session.runs = 2
    /\ Stored = StoredBy(1)

\* "Start New Search" after a dual run: nothing stored, the session still
\* unlocked with its roster
C33_WitnessCleared ==
    /\ session.runs >= 1
    /\ Stored = NothingStored
    /\ session.selected_match = "none"
    /\ session.authenticated /\ session.df /\ session.df_filtered
====
